---- MODULE Spec2Model ----
(***************************************************************************)
(* Model of the ToneSugar analyzer (src/analyzer/handler.py): the Lambda   *)
(* handler, its tiered duration resolver and its bounded tempo estimator.  *)
(* External collaborators (S3, DynamoDB, mutagen, soundfile, librosa) are  *)
(* modelled by the outcome of each call, drawn nondeterministically.       *)
(***************************************************************************)
EXTENDS Integers, Sequences, FiniteSets, TLC

\* ------------------------------------------------------- Python values

\* Strings are sequences of tokens; "/" and "." are tokens of their own so
\* that os.path functions can be computed on them.
PyNone == [t |-> "None"]
Str(s) == [t |-> "str", v |-> s]
PyInt(n) == [t |-> "int", v |-> n]

\* Python truthiness, as used by `not bucket`, `if file_id:`.
Truthy(x) ==
    CASE x.t = "None" -> FALSE
      [] x.t = "str" -> x.v # <<>>
      [] x.t = "int" -> x.v # 0

\* dict.get(k): the value, or None when the key is absent.
EventGet(e, k) == IF k \in DOMAIN e THEN e[k] ELSE PyNone

\* str.lower() on one token.
LowerTok(c) ==
    CASE c = "MP3" -> "mp3"
      [] c = "WAV" -> "wav"
      [] OTHER -> c

Lower(s) == [i \in 1..Len(s) |-> LowerTok(s[i])]

\* Index of the last "/" of a path, 0 when there is none.
LastSlash(p) ==
    LET S == {i \in 1..Len(p) : p[i] = "/"}
    IN IF S = {} THEN 0 ELSE CHOOSE i \in S : \A j \in S : j <= i

\* os.path.basename: what follows the last "/".
Basename(p) == SubSeq(p, LastSlash(p) + 1, Len(p))

\* os.path.splitext(p)[1]: from the last "." of the basename, unless that dot
\* belongs to the basename's leading dots.
SplitExt(p) ==
    LET b == LastSlash(p)
        D == {i \in (b + 1)..Len(p) : p[i] = "."}
    IN IF D = {} THEN <<>>
       ELSE LET d == CHOOSE i \in D : \A j \in D : j <= i
            IN IF \E j \in (b + 1)..(d - 1) : p[j] # "."
               THEN SubSeq(p, d, Len(p))
               ELSE <<>>

\* `tok in str(e)`.
Contains(msg, tok) == \E i \in 1..Len(msg) : msg[i] = tok

\* ------------------------------------------------------- configuration

OUT_PREFIX == <<"analysis", "/">>
TEMPO_MAX_SECONDS == 30
TEMPO_SR == 22050
\* duration=5.0 of the last-resort partial decode.
PARTIAL_SECONDS == 5

\* ------------------------------------------------ outcomes of a call

\* What a call did: raised an exception, returned None, returned a value.
Raise == [k |-> "raise"]
RaiseMsg(m) == [k |-> "raise", msg |-> m]
NoneOut == [k |-> "none"]
Val(x) == [k |-> "val", v |-> x]

\* One entry of the log of calls to external collaborators: who called what,
\* with which arguments, and what came back.
Call(by, op, arg, out) == [by |-> by, op |-> op, arg |-> arg, out |-> out]

Min(a, b) == IF a <= b THEN a ELSE b

\* What the decoder returns for librosa.load(path, sr=sr, duration=dur) of a
\* file of len seconds: at most dur seconds of samples at rate sr.
Decode(len, sr, dur) == [n |-> sr * Min(len, dur), sr |-> sr]

\* librosa.load under oracle answer a ("ok", "none", "raise").
LoadOut(a, len, sr, dur) ==
    CASE a = "ok" -> Val(Decode(len, sr, dur))
      [] a = "none" -> NoneOut
      [] OTHER -> Raise

\* importlib.import_module("librosa").
ImportOut(importable) == IF importable THEN Val("librosa") ELSE Raise

\* ------------------------------------------------------ _fast_duration

MP3_EXT == <<".", "mp3">>

FD == "_fast_duration"

\* A tier reports the calls it made (tried), whether it returned a result
\* (ok) and which (d), and whether an exception left it (raised: never, each
\* tier sits in its own try/except Exception: pass).

\* Mutant: tier 1 computes the length but does not return it.
DurationTier1NoReturn(ext, o) ==
    IF ext = MP3_EXT
    THEN [tried |-> <<Call(FD, "MutagenMP3", [tier |-> 1], o.mutagen)>>,
          ok |-> FALSE, d |-> 0, raised |-> FALSE]
    ELSE [tried |-> <<>>, ok |-> FALSE, d |-> 0, raised |-> FALSE]

\* Tier 1 (lines 36-41): only for ".mp3"; the value is not checked.
DurationTier1(ext, o) ==
    IF ext = MP3_EXT
    THEN [tried |-> <<Call(FD, "MutagenMP3", [tier |-> 1], o.mutagen)>>,
          ok |-> o.mutagen.k = "val",
          d |-> IF o.mutagen.k = "val" THEN o.mutagen.v ELSE 0,
          raised |-> FALSE]
    ELSE [tried |-> <<>>, ok |-> FALSE, d |-> 0, raised |-> FALSE]

\* Mutant: tier 2 without its try/except.
DurationTier2NoCatch(o) ==
    [tried |-> <<Call(FD, "sf.info", [tier |-> 2], o.sfinfo)>>,
     ok |-> o.sfinfo.k = "val" /\ o.sfinfo.v > 0,
     d |-> IF o.sfinfo.k = "val" THEN o.sfinfo.v ELSE 0,
     raised |-> o.sfinfo.k = "raise"]

\* Mutant: tier 2 takes whatever duration the container reports.
DurationTier2AnyValue(o) ==
    [tried |-> <<Call(FD, "sf.info", [tier |-> 2], o.sfinfo)>>,
     ok |-> o.sfinfo.k = "val",
     d |-> IF o.sfinfo.k = "val" THEN o.sfinfo.v ELSE 0,
     raised |-> FALSE]

\* Tier 2 (lines 43-48): accepted only if the duration is not None and > 0.
DurationTier2(o) ==
    [tried |-> <<Call(FD, "sf.info", [tier |-> 2], o.sfinfo)>>,
     ok |-> o.sfinfo.k = "val" /\ o.sfinfo.v > 0,
     d |-> IF o.sfinfo.k = "val" THEN o.sfinfo.v ELSE 0,
     raised |-> FALSE]

\* Tier 3 (lines 50-56): import librosa, then get_duration; accepted if > 0.
DurationTier3(o) ==
    LET imp == Call(FD, "import_librosa", [tier |-> 3], ImportOut(o.importable))
    IN IF ~o.importable
       THEN [tried |-> <<imp>>, ok |-> FALSE, d |-> 0, raised |-> FALSE]
       ELSE [tried |-> <<imp, Call(FD, "librosa.get_duration", [tier |-> 3],
                                   o.getdur)>>,
             ok |-> o.getdur.k = "val" /\ o.getdur.v > 0,
             d |-> IF o.getdur.k = "val" THEN o.getdur.v ELSE 0,
             raised |-> FALSE]

\* Mutant: tier 4 has no except clause, so its failure leaves _fast_duration.
DurationTier4NoCatch(len, o) ==
    LET imp == Call(FD, "import_librosa", [tier |-> 4], ImportOut(o.importable))
        out == LoadOut(o.partial, len, o.native_sr, PARTIAL_SECONDS)
        good == out.k = "val" /\ out.v.sr # 0 /\ out.v.n > 0
    IN IF ~o.importable
       THEN [tried |-> <<imp>>, ok |-> FALSE, d |-> 0, raised |-> TRUE]
       ELSE [tried |-> <<imp, Call(FD, "librosa.load",
                                   [tier |-> 4, sr |-> PyNone,
                                    duration |-> PARTIAL_SECONDS], out)>>,
             ok |-> good,
             d |-> IF good THEN out.v.n \div out.v.sr ELSE 0,
             raised |-> out.k = "raise"]

\* Tier 4 (lines 58-65): decode at most 5 seconds at the file's own rate;
\* accepted if sr is truthy and samples were read; the result is len(y) / sr.
DurationTier4(len, o) ==
    LET imp == Call(FD, "import_librosa", [tier |-> 4], ImportOut(o.importable))
        out == LoadOut(o.partial, len, o.native_sr, PARTIAL_SECONDS)
        good == out.k = "val" /\ out.v.sr # 0 /\ out.v.n > 0
    IN IF ~o.importable
       THEN [tried |-> <<imp>>, ok |-> FALSE, d |-> 0, raised |-> FALSE]
       ELSE [tried |-> <<imp, Call(FD, "librosa.load",
                                   [tier |-> 4, sr |-> PyNone,
                                    duration |-> PARTIAL_SECONDS], out)>>,
             ok |-> good,
             d |-> IF good THEN out.v.n \div out.v.sr ELSE 0,
             raised |-> FALSE]

TierLabel(i) ==
    CASE i = 1 -> "mutagen"
      [] i = 2 -> "soundfile.info"
      [] i = 3 -> "librosa.get_duration"
      [] i = 4 -> "librosa.partial"

\* The fall-through of lines 36-66 over the tiers in order, from tier i on,
\* trace being the calls made so far.
RECURSIVE DurationChain(_, _, _)
DurationChain(tiers, i, trace) ==
    IF i > Len(tiers)
    THEN [k |-> "val", d |-> 0, label |-> "unknown", trace |-> trace]
    ELSE LET t == tiers[i]
             tr == trace \o t.tried
         IN IF t.raised THEN [k |-> "raise", trace |-> tr]
            ELSE IF t.ok
            THEN [k |-> "val", d |-> t.d, label |-> TierLabel(i), trace |-> tr]
            ELSE DurationChain(tiers, i + 1, tr)

\* _fast_duration(path, ext) on a file of len seconds, the libraries behaving
\* as o says: (d, label), or an exception, and the calls made, in order.
FastDuration(ext0, len, o) ==
    LET ext == Lower(ext0)
    IN DurationChain(<<DurationTier1(ext, o), DurationTier2(o),
                       DurationTier3(o), DurationTier4(len, o)>>, 1, <<>>)

\* ------------------------------------------------------ _bounded_tempo

BT == "_bounded_tempo"

RECURSIVE SumSeq(_)
SumSeq(s) == IF s = <<>> THEN 0 ELSE Head(s) + SumSeq(Tail(s))

\* numpy.mean of an array-like, float() of a scalar (lines 95-99).
TempoOfAlt(t_alt) ==
    IF t_alt.shape THEN SumSeq(t_alt.vals) \div Len(t_alt.vals)
    ELSE t_alt.vals[1]

\* Mutant: the decode request carries no bound below the hour.
TempoLoadArgsUnbounded == [sr |-> TEMPO_SR, duration |-> 3600]

\* The arguments of the decode request of lines 78-84.
TempoLoadArgs == [sr |-> TEMPO_SR, duration |-> TEMPO_MAX_SECONDS]

\* (0.0, 0, 0.0)
ZeroTempo(trace) ==
    [k |-> "val", tempo |-> 0, beats |-> 0, elapsed |-> 0, trace |-> trace]

\* Mutant: the function-wide except clause re-raises.
TempoExceptReraise(trace) == [k |-> "raise", trace |-> trace]

\* Lines 108-113: the function-wide except Exception.
TempoExcept(trace) == ZeroTempo(trace)

\* Lines 89-101: the onset-based fallback, its own try/except keeping the
\* primary's tempo when the estimator fails.
TempoFallback(tempo0, o) ==
    IF o.alt.k = "val" THEN TempoOfAlt(o.alt.v) ELSE tempo0

\* Mutant: the fallback is decided on the tempo alone, an empty beat set
\* does not trigger it.
TempoAfterLoadTempoOnly(o, trace) ==
    LET tr2 == Append(trace, Call(BT, "beat_track", <<>>, o.beat))
    IN IF o.beat.k # "val" THEN TempoExcept(tr2)
       ELSE LET tempo0 == o.beat.v.tempo
                beats == o.beat.v.beats
                fallback == tempo0 = 0 \/ tempo0 <= 0
                tr3 == IF fallback
                       THEN Append(tr2, Call(BT, "beat.tempo", <<>>, o.alt))
                       ELSE tr2
                tempo == IF fallback THEN TempoFallback(tempo0, o) ELSE tempo0
            IN [k |-> "val",
                tempo |-> IF tempo # 0 THEN tempo ELSE 0,
                beats |-> beats,
                elapsed |-> o.elapsed,
                trace |-> tr3]

\* Lines 87-107: beat tracking on the decoded excerpt, the fallback, and the
\* returned triple (float(tempo or 0.0), len(beats), elapsed).
TempoAfterLoad(o, trace) ==
    LET tr2 == Append(trace, Call(BT, "beat_track", <<>>, o.beat))
    IN IF o.beat.k # "val" THEN TempoExcept(tr2)
       ELSE LET tempo0 == o.beat.v.tempo
                beats == o.beat.v.beats
                fallback == tempo0 = 0 \/ tempo0 <= 0 \/ beats = 0
                tr3 == IF fallback
                       THEN Append(tr2, Call(BT, "beat.tempo", <<>>, o.alt))
                       ELSE tr2
                tempo == IF fallback THEN TempoFallback(tempo0, o) ELSE tempo0
            IN [k |-> "val",
                tempo |-> IF tempo # 0 THEN tempo ELSE 0,
                beats |-> beats,
                elapsed |-> o.elapsed,
                trace |-> tr3]

\* Lines 74-113: the body of _bounded_tempo when the feature is enabled.
TempoEnabled(len, o) ==
    LET imp == Call(BT, "import_librosa", <<>>, ImportOut(o.importable))
        out == LoadOut(o.load, len, TempoLoadArgs.sr, TempoLoadArgs.duration)
        tr1 == <<imp, Call(BT, "librosa.load", TempoLoadArgs, out)>>
    IN IF ~o.importable THEN TempoExcept(<<imp>>)
       ELSE IF out.k = "raise" THEN TempoExcept(tr1)
       ELSE IF out.k = "none" \/ out.v.n = 0 \/ out.v.sr = 0
       THEN ZeroTempo(tr1)
       ELSE TempoAfterLoad(o, tr1)

\* Mutant: the feature toggle is not consulted.
BoundedTempoNoToggle(enabled, len, o) == TempoEnabled(len, o)

\* _bounded_tempo(path) on a file of len seconds (lines 72-73 first).
BoundedTempo(enabled, len, o) ==
    IF ~enabled THEN ZeroTempo(<<>>) ELSE TempoEnabled(len, o)

\* ------------------------------------------------------------- stores

\* str(float(x)) of a whole number: "x.0".
FloatStr(x) == <<x, ".", 0>>

\* Decimal(s) of "i.f": the coefficient's digits and the exponent.
Decimal(s) == [coef |-> s[1] * 10 + s[3], exp |-> 0 - 1]

\* datetime.now(timezone.utc).isoformat()
IsoFormat(t) == [instant |-> t, offset |-> "+00:00"]

\* str.replace(old, new) on the offset of a timestamp.
Replace(s, old, new) == [s EXCEPT !.offset = IF @ = old THEN new ELSE @]

\* json.dumps(obj).encode("utf-8")
JsonDumps(obj) == [json |-> obj]

\* DynamoDB UpdateItem with a SET expression: the item at Key is created if
\* missing, the named attributes are set, the others are kept.
UpdateItemEffect(tbl, kw) ==
    LET id == kw.Key.file_id
        old == IF id \in DOMAIN tbl THEN tbl[id] ELSE [file_id |-> id]
        sets == {kw.UpdateExpression[i] : i \in 1..Len(kw.UpdateExpression)}
        attr(p) == kw.ExpressionAttributeNames[p[1]]
        new == [a \in DOMAIN old \cup {attr(p) : p \in sets} |->
                  IF \E p \in sets : attr(p) = a
                  THEN kw.ExpressionAttributeValues[
                           (CHOOSE p \in sets : attr(p) = a)[2]]
                  ELSE old[a]]
    IN [k \in DOMAIN tbl \cup {id} |-> IF k = id THEN new ELSE tbl[k]]

\* DynamoDB PutItem: the item replaces whatever was stored under its key.
PutItemEffect(tbl, kw) ==
    [k \in DOMAIN tbl \cup {kw.Item.file_id} |->
        IF k = kw.Item.file_id THEN kw.Item ELSE tbl[k]]

\* S3 PutObject: the object replaces whatever was stored under its key.
PutObjectEffect(objs, kw) ==
    [k \in DOMAIN objs \cup {<<kw.Bucket, kw.Key>>} |->
        IF k = <<kw.Bucket, kw.Key>>
        THEN [Body |-> kw.Body, ContentType |-> kw.ContentType]
        ELSE objs[k]]

\* ---------------------------------------------------------- the inputs

Absent == [t |-> "absent"]

\* An event with the given fields, those that are Absent left out.
MkEvent(b, k, f) ==
    LET all == [bucket |-> b, key |-> k, file_id |-> f]
        D == {n \in {"bucket", "key", "file_id"} : all[n].t # "absent"}
    IN [n \in D |-> all[n]]

BucketVals == {Absent, Str(<<>>), Str(<<"test-bucket">>)}

KeyVals ==
    {Absent, Str(<<>>), PyInt(5),
     Str(<<"uploads", "/", "abc", ".", "wav">>),
     Str(<<"foo", ".", "MP3">>)}

FileIdVals == {Absent, Str(<<>>), Str(<<"fid-1">>)}

Events == {MkEvent(b, k, f) : b \in BucketVals, k \in KeyVals, f \in FileIdVals}

\* Length in seconds of the audio behind the key.
FileLengths == {0, 40}

\* A difference of two time.time() readings.
Elapsed == {1, 2}

\* Readings of the UTC clock (line 178).
ClockReadings == {1, 2}

\* str(e) of the exceptions the collaborators raise.
TmpErrors == {<<"No space left on device">>}
DownloadErrors == {<<"An error occurred (404) when calling the HeadObject operation">>}
PutObjectErrors == {<<"An error occurred (AccessDenied) when calling the PutObject operation">>}
StoreErrors ==
    {<<"An error occurred (", "ValidationException", ") when calling the UpdateItem operation">>,
     <<"Attribute name is a ", "reserved keyword">>,
     <<"An error occurred (ProvisionedThroughputExceededException)">>}

\* How the libraries may answer _fast_duration on a file of len seconds.
\* (What a library that is never reached would answer is left at one value.)
DurationOracles(len) ==
    {o \in [mutagen : {Raise, Val(len)},
            sfinfo : {Raise, NoneOut, Val(len)},
            importable : BOOLEAN,
            getdur : {Raise, Val(len)},
            partial : {"raise", "ok"},
            native_sr : {0, 8}] :
        /\ ~o.importable => o.getdur = Raise /\ o.partial = "raise"
        /\ o.partial = "raise" => o.native_sr = 0}

\* How librosa may answer _bounded_tempo.
TempoOracles ==
    {o \in [importable : BOOLEAN,
            load : {"raise", "none", "ok"},
            beat : {Raise} \cup {Val([tempo |-> t, beats |-> b]) :
                                    t \in {0, 120}, b \in {0, 42}},
            alt : {Raise, Val([shape |-> TRUE, vals |-> <<80, 100>>]),
                   Val([shape |-> FALSE, vals |-> <<95>>])},
            elapsed : Elapsed] :
        /\ ~o.importable => o.load = "raise"
        /\ o.load # "ok" => o.beat = Raise
        /\ o.beat = Raise => o.alt = Raise /\ o.elapsed = 1}

\* The record save_metadata leaves for an upload (src/app/db_dynamo.py).
SavedItem ==
    [file_id |-> Str(<<"fid-1">>),
     filename |-> Str(<<"abc", ".", "wav">>),
     s3_key |-> Str(<<"uploads", "/", "fid-1", ".", "wav">>),
     duration |-> [coef |-> 0, exp |-> 0],
     tempo |-> [coef |-> 0, exp |-> 0]]

EmptyMap == [x \in {} |-> x]

InitialTables == {EmptyMap, [i \in {Str(<<"fid-1">>)} |-> SavedItem]}

\* --------------------------------------------------------------- state

VARIABLES
    ENABLE_TEMPO,     \* the feature toggle read at import (line 22)
    pc,               \* where the invocation of handler stands
    event,            \* the event of the invocation
    tmp,              \* whether the invocation's scratch file exists
    fileLen,          \* seconds of audio in the downloaded file
    fast_duration,    \* what the call of _fast_duration did
    bounded_tempo,    \* what the call of _bounded_tempo did
    timings,          \* the handler's timings dict
    calls,            \* the invocation's calls to collaborators, in order
    result,           \* what handler returned (or raised)
    update_args,      \* the update_item arguments built at lines 169-179
    table,            \* the DynamoDB table: file_id -> item
    objects,          \* the S3 objects written: <<bucket, key>> -> object
    other,            \* another invocation of handler: its locals
    request,          \* the request the API process is serving
    api_pc,           \* where the API process stands in serving it
    api_calls,        \* the calls the API process made for it, in order
    response,         \* the HTTP response to the request
    queue             \* the payloads Lambda accepted for asynchronous invocation

\* The locals of one invocation of handler.
locals == <<pc, event, tmp, fileLen, fast_duration, bounded_tempo, timings,
            calls, result, update_args>>

\* The state of the API process (src/app/main.py).
api == <<request, api_pc, api_calls, response, queue>>

\* What a step of one invocation of handler leaves alone.
outside == <<other, api>>

vars == <<ENABLE_TEMPO, pc, event, tmp, fileLen, fast_duration, bounded_tempo,
          timings, calls, result, update_args, table, objects, other, request,
          api_pc, api_calls, response, queue>>

\* handler's locals (lines 123-125, 137, 146-158).
bucket == EventGet(event, "bucket")
key == EventGet(event, "key")
file_id == EventGet(event, "file_id")
ext == Lower(SplitExt(key.v))
duration == fast_duration.d
duration_method == fast_duration.label
tempo == bounded_tempo.tempo
beats_count == bounded_tempo.beats
tempo_elapsed == bounded_tempo.elapsed

analysis ==
    [duration |-> duration,
     tempo |-> tempo,
     beats |-> beats_count,
     duration_method |-> duration_method,
     timings |-> timings,
     tempo_enabled |-> ENABLE_TEMPO,
     tempo_max_seconds |-> TEMPO_MAX_SECONDS,
     tempo_sr |-> TEMPO_SR]

\* Mutant: the artifact key carries the time the download took.
OutKeyPerRun ==
    OUT_PREFIX \o Basename(key.v)
        \o <<".", IF timings["download_s"] = 1 THEN "t1" ELSE "t2", ".", "json">>

\* Mutant: the artifact key keeps the directories of the source key.
OutKeyFullPath == OUT_PREFIX \o key.v \o <<".", "json">>

out_key == OUT_PREFIX \o Basename(key.v) \o <<".", "json">>

\* The keyword arguments of s3.put_object (lines 159-164).
PutObjectArgs ==
    [Bucket |-> bucket, Key |-> Str(out_key), Body |-> JsonDumps(analysis),
     ContentType |-> "application/json"]

\* Mutant: a copy-and-paste slip stores the tempo as the duration too.
UpdateItemArgsTempoTwice(now) ==
    [Key |-> [file_id |-> file_id],
     UpdateExpression |-> <<<<"#duration", ":d">>, <<"#tempo", ":t">>,
                            <<"#analyzed_at", ":a">>>>,
     ExpressionAttributeNames |->
        [n \in {"#duration", "#tempo", "#analyzed_at"} |->
            CASE n = "#duration" -> "duration"
              [] n = "#tempo" -> "tempo"
              [] n = "#analyzed_at" -> "analyzed_at"],
     ExpressionAttributeValues |->
        [n \in {":d", ":t", ":a"} |->
            CASE n = ":d" -> Decimal(FloatStr(tempo))
              [] n = ":t" -> Decimal(FloatStr(tempo))
              [] n = ":a" -> Replace(IsoFormat(now), "+00:00", "Z")]]

\* Mutant: the update also sets the record's filename, to the key's basename.
UpdateItemArgsSetsFilename(now) ==
    [Key |-> [file_id |-> file_id],
     UpdateExpression |-> <<<<"#duration", ":d">>, <<"#tempo", ":t">>,
                            <<"#analyzed_at", ":a">>, <<"#filename", ":f">>>>,
     ExpressionAttributeNames |->
        [n \in {"#duration", "#tempo", "#analyzed_at", "#filename"} |->
            CASE n = "#duration" -> "duration"
              [] n = "#tempo" -> "tempo"
              [] n = "#analyzed_at" -> "analyzed_at"
              [] n = "#filename" -> "filename"],
     ExpressionAttributeValues |->
        [n \in {":d", ":t", ":a", ":f"} |->
            CASE n = ":d" -> Decimal(FloatStr(duration))
              [] n = ":t" -> Decimal(FloatStr(tempo))
              [] n = ":a" -> Replace(IsoFormat(now), "+00:00", "Z")
              [] n = ":f" -> Str(Basename(key.v))]]

\* The keyword arguments of table.update_item built at lines 169-179 and
\* 186-189, the clock reading now.
UpdateItemArgs(now) ==
    [Key |-> [file_id |-> file_id],
     UpdateExpression |-> <<<<"#duration", ":d">>, <<"#tempo", ":t">>,
                            <<"#analyzed_at", ":a">>>>,
     ExpressionAttributeNames |->
        [n \in {"#duration", "#tempo", "#analyzed_at"} |->
            CASE n = "#duration" -> "duration"
              [] n = "#tempo" -> "tempo"
              [] n = "#analyzed_at" -> "analyzed_at"],
     ExpressionAttributeValues |->
        [n \in {":d", ":t", ":a"} |->
            CASE n = ":d" -> Decimal(FloatStr(duration))
              [] n = ":t" -> Decimal(FloatStr(tempo))
              [] n = ":a" -> Replace(IsoFormat(now), "+00:00", "Z")]]

\* Mutant: the retry rebuilds its values, reading the clock again.
RetryArgsRebuilt == UpdateItemArgs(update_args.ExpressionAttributeValues[":a"].instant + 1)

\* Lines 197-202: the retry passes the names built for the first attempt.
RetryArgs == update_args

\* Mutant: the inserted record is keyed by the whole source key.
PutItemArgsFullKey ==
    [Item |-> [file_id |-> key,
               s3_key |-> key,
               duration |-> Decimal(FloatStr(duration)),
               tempo |-> Decimal(FloatStr(tempo))]]

\* The keyword arguments of table.put_item (lines 207-214).
PutItemArgs ==
    [Item |-> [file_id |-> Str(Basename(key.v)),
               s3_key |-> key,
               duration |-> Decimal(FloatStr(duration)),
               tempo |-> Decimal(FloatStr(tempo))]]

\* Mutant: every failure of the first update_item is retried.
IsTransientAlways(msg) == TRUE

\* Line 193: which failures of the first update_item are retried.
IsTransient(msg) ==
    Contains(msg, "ValidationException") \/ Contains(msg, "reserved keyword")

\* Mutant: the except clause re-raises.
BoundaryReraise(msg) == [raised |-> msg]

\* Lines 218-220: except Exception as e: return {"error": str(e)}.
Boundary(msg) == [error |-> msg]

Pending == [pending |-> TRUE]

TypeInit ==
    /\ ENABLE_TEMPO \in BOOLEAN
    /\ table \in InitialTables

\* The locals of an invocation that has not started.
IdleLocals ==
    [pc |-> "idle", event |-> EmptyMap, tmp |-> FALSE, fileLen |-> 0,
     fast_duration |-> NoneOut, bounded_tempo |-> NoneOut, timings |-> EmptyMap,
     calls |-> <<>>, result |-> Pending, update_args |-> EmptyMap]

\* The locals of the invocation, as a record.
Locals ==
    [pc |-> pc, event |-> event, tmp |-> tmp, fileLen |-> fileLen,
     fast_duration |-> fast_duration, bounded_tempo |-> bounded_tempo,
     timings |-> timings, calls |-> calls, result |-> result,
     update_args |-> update_args]

NoRequest == [op |-> "none"]

InitLocals ==
    /\ pc = "idle"
    /\ event = EmptyMap
    /\ tmp = FALSE
    /\ fileLen = 0
    /\ fast_duration = NoneOut
    /\ bounded_tempo = NoneOut
    /\ timings = EmptyMap
    /\ calls = <<>>
    /\ result = Pending
    /\ update_args = EmptyMap

\* No other invocation, and the API process idle.
InitOutside ==
    /\ other = IdleLocals
    /\ request = NoRequest
    /\ api_pc = "idle"
    /\ api_calls = <<>>
    /\ response = Pending
    /\ queue = {}

Init ==
    /\ TypeInit
    /\ InitLocals
    /\ objects = EmptyMap
    /\ InitOutside

\* Mutant: only None counts as missing (`is None` instead of `not`).
MissingParamsNoneOnly(b, k) == b.t = "None" \/ k.t = "None"

\* Line 127: if not bucket or not key.
MissingParams(b, k) == ~Truthy(b) \/ ~Truthy(k)

\* Mutant: the scratch file is created with delete=False and outlives the
\* with block when an exception leaves it.
FailKeepsTmp(msg) ==
    /\ result' = Boundary(msg)
    /\ tmp' = tmp
    /\ pc' = "done"

\* An exception reaches the handler's except clause: the with block is left
\* (the scratch file is deleted) and {error: message} is returned.
Fail(msg) ==
    /\ result' = Boundary(msg)
    /\ tmp' = FALSE
    /\ pc' = "done"

\* Line 216: the with block is left and the analysis is returned.
Succeed ==
    /\ result' = [bucket |-> bucket, key |-> key, analysis |-> analysis]
    /\ tmp' = FALSE
    /\ pc' = "done"

\* Lines 122-128: handler is entered with event e.
Start(e) ==
    /\ pc = "idle"
    /\ event' = e
    /\ IF MissingParams(EventGet(e, "bucket"), EventGet(e, "key"))
       THEN /\ result' = [error |-> <<"Missing bucket or key">>]
            /\ pc' = "done"
       ELSE /\ result' = Pending
            /\ pc' = "tmpfile"
    /\ UNCHANGED outside
    /\ UNCHANGED <<ENABLE_TEMPO, tmp, fileLen, fast_duration, bounded_tempo,
                   timings, calls, update_args, table, objects>>

\* Line 133: the scratch file is created, its suffix taken from the key.
MakeTmp ==
    /\ pc = "tmpfile"
    /\ IF key.t # "str"
       THEN Fail(<<"expected str, bytes or os.PathLike object">>)
       ELSE \/ /\ tmp' = TRUE
               /\ pc' = "download"
               /\ UNCHANGED result
            \/ \E m \in TmpErrors : Fail(m)
    /\ UNCHANGED outside
    /\ UNCHANGED <<ENABLE_TEMPO, event, fileLen, fast_duration, bounded_tempo,
                   timings, calls, update_args, table, objects>>

\* Lines 134-135.
Download ==
    /\ pc = "download"
    /\ \/ \E len \in FileLengths, dt \in Elapsed :
            /\ calls' = Append(calls, Call("handler", "download_file",
                                           <<bucket, key>>, Val(len)))
            /\ fileLen' = len
            /\ timings' = ("download_s" :> dt)
            /\ pc' = "duration"
            /\ UNCHANGED <<tmp, result>>
       \/ \E m \in DownloadErrors :
            /\ calls' = Append(calls, Call("handler", "download_file",
                                           <<bucket, key>>, RaiseMsg(m)))
            /\ Fail(m)
            /\ UNCHANGED <<fileLen, timings>>
    /\ UNCHANGED outside
    /\ UNCHANGED <<ENABLE_TEMPO, event, fast_duration, bounded_tempo, update_args,
                   table, objects>>

\* Lines 137-140.
Duration ==
    /\ pc = "duration"
    /\ \E o \in DurationOracles(fileLen), dt \in Elapsed :
         LET r == FastDuration(ext, fileLen, o)
         IN /\ calls' = calls \o r.trace
            /\ fast_duration' = [x \in DOMAIN r \ {"trace"} |-> r[x]]
            /\ IF r.k = "raise"
               THEN Fail(<<"_fast_duration">>) /\ UNCHANGED timings
               ELSE /\ timings' = timings @@ ("duration_s" :> dt)
                    /\ pc' = "tempo"
                    /\ UNCHANGED <<tmp, result>>
    /\ UNCHANGED outside
    /\ UNCHANGED <<ENABLE_TEMPO, event, fileLen, bounded_tempo, update_args,
                   table, objects>>

\* Lines 142-144.
Tempo ==
    /\ pc = "tempo"
    /\ \E o \in TempoOracles, dt \in Elapsed :
         LET r == BoundedTempo(ENABLE_TEMPO, fileLen, o)
         IN /\ calls' = calls \o r.trace
            /\ bounded_tempo' = [x \in DOMAIN r \ {"trace"} |-> r[x]]
            /\ IF r.k = "raise"
               THEN Fail(<<"_bounded_tempo">>) /\ UNCHANGED timings
               ELSE /\ timings' = timings @@
                         ("tempo_s" :> IF r.elapsed # 0 THEN r.elapsed ELSE dt)
                    /\ pc' = "put_object"
                    /\ UNCHANGED <<tmp, result>>
    /\ UNCHANGED outside
    /\ UNCHANGED <<ENABLE_TEMPO, event, fileLen, fast_duration, update_args,
                   table, objects>>

\* Mutant: a failed artifact write is logged and the handler goes on to the
\* metadata store.
PutObjectGoesOn ==
    /\ pc = "put_object"
    /\ \/ /\ calls' = Append(calls, Call("handler", "put_object", PutObjectArgs,
                                         Val("ok")))
          /\ objects' = PutObjectEffect(objects, PutObjectArgs)
       \/ \E m \in PutObjectErrors :
            /\ calls' = Append(calls, Call("handler", "put_object",
                                           PutObjectArgs, RaiseMsg(m)))
            /\ UNCHANGED objects
    /\ pc' = "store"
    /\ UNCHANGED <<tmp, result>>
    /\ UNCHANGED outside
    /\ UNCHANGED <<ENABLE_TEMPO, event, fileLen, fast_duration, bounded_tempo,
                   timings, update_args, table>>

\* Lines 146-164.
PutObject ==
    /\ pc = "put_object"
    /\ \/ /\ calls' = Append(calls, Call("handler", "put_object", PutObjectArgs,
                                         Val("ok")))
          /\ objects' = PutObjectEffect(objects, PutObjectArgs)
          /\ pc' = "store"
          /\ UNCHANGED <<tmp, result>>
       \/ \E m \in PutObjectErrors :
            /\ calls' = Append(calls, Call("handler", "put_object",
                                           PutObjectArgs, RaiseMsg(m)))
            /\ Fail(m)
            /\ UNCHANGED objects
    /\ UNCHANGED outside
    /\ UNCHANGED <<ENABLE_TEMPO, event, fileLen, fast_duration, bounded_tempo,
                   timings, update_args, table>>

\* Lines 167-190 and the except clause of lines 191-204 up to the retry.
UpdateItem ==
    /\ pc = "store"
    /\ Truthy(file_id)
    /\ \E now \in ClockReadings :
         LET args == UpdateItemArgs(now)
         IN /\ update_args' = args
            /\ \/ /\ calls' = Append(calls, Call("handler", "update_item", args,
                                                 Val("ok")))
                  /\ table' = UpdateItemEffect(table, args)
                  /\ Succeed
               \/ \E m \in StoreErrors :
                    /\ calls' = Append(calls, Call("handler", "update_item",
                                                   args, RaiseMsg(m)))
                    /\ IF IsTransient(m)
                       THEN pc' = "retry" /\ UNCHANGED <<tmp, result>>
                       ELSE Fail(m)
                    /\ UNCHANGED table
    /\ UNCHANGED outside
    /\ UNCHANGED <<ENABLE_TEMPO, event, fileLen, fast_duration, bounded_tempo,
                   timings, objects>>

\* Lines 197-202: the one retry; its failure reaches the handler's except.
RetryUpdateItem ==
    /\ pc = "retry"
    /\ \/ /\ calls' = Append(calls, Call("handler", "update_item", RetryArgs,
                                         Val("ok")))
          /\ table' = UpdateItemEffect(table, RetryArgs)
          /\ Succeed
       \/ \E m \in StoreErrors :
            /\ calls' = Append(calls, Call("handler", "update_item", RetryArgs,
                                           RaiseMsg(m)))
            /\ Fail(m)
            /\ UNCHANGED table
    /\ UNCHANGED outside
    /\ UNCHANGED <<ENABLE_TEMPO, event, fileLen, fast_duration, bounded_tempo,
                   timings, update_args, objects>>

\* Lines 205-214.
PutItem ==
    /\ pc = "store"
    /\ ~Truthy(file_id)
    /\ \/ /\ calls' = Append(calls, Call("handler", "put_item", PutItemArgs,
                                         Val("ok")))
          /\ table' = PutItemEffect(table, PutItemArgs)
          /\ Succeed
       \/ \E m \in StoreErrors :
            /\ calls' = Append(calls, Call("handler", "put_item", PutItemArgs,
                                           RaiseMsg(m)))
            /\ Fail(m)
            /\ UNCHANGED table
    /\ UNCHANGED outside
    /\ UNCHANGED <<ENABLE_TEMPO, event, fileLen, fast_duration, bounded_tempo,
                   timings, update_args, objects>>

Next ==
    \/ \E e \in Events : Start(e)
    \/ MakeTmp
    \/ Download
    \/ Duration
    \/ Tempo
    \/ PutObject
    \/ UpdateItem
    \/ RetryUpdateItem
    \/ PutItem

Spec == Init /\ [][Next]_vars

\* ------------------------------------------- src/app/db_dynamo.py

DB == "db_dynamo"

PyFloat(x) == [t |-> "float", v |-> x]

\* botocore's ClientError, and any other exception a boto3 call may raise
\* (a connection error, a parameter validation error).
ClientError(m) == [k |-> "raise", type |-> "ClientError", msg |-> m]
OtherError(m) == [k |-> "raise", type |-> "Exception", msg |-> m]

\* Lines 16-29: floats become Decimal(str(value)); the rest is kept.
CleanDdb(value) ==
    IF value.t = "float" THEN Decimal(FloatStr(value.v)) ELSE value

\* Decimal("0")
DecimalZero == [coef |-> 0, exp |-> 0]

\* Lines 45-54: the default of duration and tempo.
SaveDefault(x) ==
    IF x.t = "None" THEN DecimalZero
    ELSE IF x.t = "float" THEN Decimal(FloatStr(x.v)) ELSE x

\* Lines 40-57: the item save_metadata builds; fresh is str(uuid.uuid4()).
SaveItem(filename, s3_key, duration0, tempo0, file_id0, fresh) ==
    [file_id |-> IF Truthy(file_id0) THEN file_id0 ELSE fresh,
     filename |-> filename,
     s3_key |-> s3_key,
     duration |-> SaveDefault(duration0),
     tempo |-> SaveDefault(tempo0)]

\* Lines 59-65: save_metadata with the item built, the store answering o:
\* what it returns (the item, None on ClientError) or that it raised.
SaveMetadata(item, o) ==
    [call |-> Call(DB, "put_item", [Item |-> item], o),
     raised |-> o.k = "raise" /\ o.type # "ClientError",
     ret |-> IF o.k = "val" THEN item ELSE PyNone]

\* A dict with the one key "error".
ErrorDict(m) == [n \in {"error"} |-> Str(m)]

\* The names of the fields, a sequence of <<name, value>> in dict order.
FieldNames(fields) == {fields[i][1] : i \in 1..Len(fields)}
FieldValue(fields, n) == (CHOOSE i \in 1..Len(fields) : fields[i][1] = n)

\* Lines 79-92: the keyword arguments of update_item; "#k" and ":k" are the
\* pairs <<"#", k>> and <<":", k>>.
UpdateMetadataArgs(file_id0, fields) ==
    [Key |-> [file_id |-> file_id0],
     UpdateExpression |->
        [i \in 1..Len(fields) |-> <<<<"#", fields[i][1]>>, <<":", fields[i][1]>>>>],
     ExpressionAttributeNames |->
        [p \in {<<"#", n>> : n \in FieldNames(fields)} |-> p[2]],
     ExpressionAttributeValues |->
        [p \in {<<":", n>> : n \in FieldNames(fields)} |->
            CleanDdb(fields[FieldValue(fields, p[2])][2])],
     ReturnValues |-> "UPDATED_NEW"]

\* What UpdateItem answers with ReturnValues=UPDATED_NEW: the attributes
\* the expression set, as they are after the update.
UpdatedNew(kw) ==
    [Attributes |->
        [n \in {kw.ExpressionAttributeNames[p] :
                    p \in DOMAIN kw.ExpressionAttributeNames} |->
            kw.ExpressionAttributeValues[<<":", n>>]]]

\* Line 75: if not file_id or not fields.
UpdateMetadataReject(file_id0, fields) == ~Truthy(file_id0) \/ fields = <<>>

\* Lines 75-97: update_metadata(file_id, **fields), the store answering o.
UpdateMetadata(file_id0, fields, o) ==
    IF UpdateMetadataReject(file_id0, fields)
    THEN [calls |-> <<>>, raised |-> FALSE,
          ret |-> ErrorDict(<<"Missing file_id or update fields">>)]
    ELSE LET kw == UpdateMetadataArgs(file_id0, fields)
         IN [calls |-> <<Call(DB, "update_item", kw, o)>>,
             raised |-> o.k = "raise" /\ o.type # "ClientError",
             ret |-> IF o.k = "val" THEN UpdatedNew(kw).Attributes
                     ELSE ErrorDict(o.msg)]

\* ------------------------------------------------ src/app/main.py

S3_BUCKET == Str(<<"test-bucket">>)
LAMBDA_NAME == Str(<<"analyzer">>)

\* str.rsplit(".", 1)[-1]: what follows the last ".", the whole string when
\* there is none.
RSplitLast(s) ==
    LET D == {i \in 1..Len(s) : s[i] = "."}
    IN IF D = {} THEN s
       ELSE SubSeq(s, (CHOOSE i \in D : \A j \in D : j <= i) + 1, Len(s))

\* Line 44.
UploadExt(filename) == <<".">> \o Lower(RSplitLast(filename))

\* Line 45.
Supported(e) == e \in {<<".", "wav">>, <<".", "mp3">>}

\* Line 50: f"uploads/{file_id}{ext}".
UploadKey(fid, e) == <<"uploads", "/">> \o fid \o e

\* The locals of upload_audio, kept with the request.
upload_ext == UploadExt(request.filename)
upload_file_id == Str(request.uuid)
upload_s3_key == Str(UploadKey(request.uuid, upload_ext))

\* Mutant: the payload names the object by the client's file name.
UploadPayloadByName ==
    [bucket |-> S3_BUCKET,
     key |-> Str(<<"uploads", "/">> \o request.filename),
     file_id |-> upload_file_id]

\* Line 62.
UploadPayload ==
    [bucket |-> S3_BUCKET, key |-> upload_s3_key, file_id |-> upload_file_id]

\* Mutant: the invocation failure is raised to the client.
InvokeFailedRaises(m) == [status |-> 500, detail |-> m]

\* Lines 69-75.
InvokeFailed(m) ==
    [status |-> 200,
     body |-> [file_id |-> upload_file_id, s3_key |-> upload_s3_key,
               lambda_invoked |-> FALSE, error |-> m]]

\* fastapi's answer to HTTPException(status_code, detail).
HTTPException(status, detail) == [status |-> status, detail |-> detail]

\* fastapi's answer to an exception the endpoint does not handle.
Unhandled == [status |-> 500, detail |-> <<"Internal Server Error">>]

\* What a step of the API process leaves alone of the pipeline.
pipeline == <<ENABLE_TEMPO, locals, other>>

\* The API process answers and is done with the request.
Respond(r) ==
    /\ response' = r
    /\ api_pc' = "done"

\* Lines 41-50: POST /upload of a file named filename; uuid is what
\* uuid.uuid4() yields.
UploadStart(filename, uuid) ==
    /\ api_pc = "idle"
    /\ request' = [op |-> "upload", filename |-> filename, uuid |-> uuid]
    /\ api_calls' = <<>>
    /\ IF Supported(UploadExt(filename))
       THEN api_pc' = "s3_upload" /\ response' = Pending
       ELSE Respond(HTTPException(400, <<"Only WAV/MP3 supported">>))
    /\ UNCHANGED <<pipeline, table, objects, queue>>

\* Lines 53-56: s3.upload_fileobj with o what S3 answers.
UploadToS3(o) ==
    /\ api_pc = "s3_upload"
    /\ api_calls' = Append(api_calls,
                           Call("upload_audio", "upload_fileobj",
                                [Bucket |-> S3_BUCKET, Key |-> upload_s3_key], o))
    /\ IF o.k = "val"
       THEN /\ objects' = PutObjectEffect(objects,
                              [Bucket |-> S3_BUCKET, Key |-> upload_s3_key,
                               Body |-> [file |-> request.filename],
                               ContentType |-> "binary/octet-stream"])
            /\ api_pc' = "save"
            /\ UNCHANGED response
       ELSE /\ Respond(HTTPException(500, <<"S3 upload failed: ">> \o o.msg))
            /\ UNCHANGED objects
    /\ UNCHANGED <<pipeline, table, request, queue>>

\* Line 59: save_metadata(filename=..., s3_key=..., file_id=...), its
\* return value not looked at; o is what the store answers.
UploadSave(o) ==
    /\ api_pc = "save"
    /\ LET r == SaveMetadata(SaveItem(Str(request.filename), upload_s3_key,
                                      PyNone, PyNone, upload_file_id,
                                      Str(<<"uuid">>)), o)
       IN /\ api_calls' = Append(api_calls, r.call)
          /\ table' = IF o.k = "val" THEN PutItemEffect(table, r.call.arg)
                      ELSE table
          /\ IF r.raised
             THEN Respond(Unhandled)
             ELSE api_pc' = "invoke" /\ UNCHANGED response
    /\ UNCHANGED <<pipeline, objects, request, queue>>

\* Lines 62-77: lambda_client.invoke, asynchronous, o what Lambda answers.
UploadInvoke(o) ==
    /\ api_pc = "invoke"
    /\ api_calls' = Append(api_calls,
                           Call("upload_audio", "invoke",
                                [FunctionName |-> LAMBDA_NAME,
                                 InvocationType |-> "Event",
                                 Payload |-> JsonDumps(UploadPayload)], o))
    /\ IF o.k = "val"
       THEN /\ queue' = queue \cup {UploadPayload}
            /\ Respond([status |-> 200,
                        body |-> [file_id |-> upload_file_id,
                                  s3_key |-> upload_s3_key,
                                  lambda_invoked |-> TRUE]])
       ELSE /\ Respond(InvokeFailed(o.msg))
            /\ UNCHANGED queue
    /\ UNCHANGED <<pipeline, table, objects, request>>

\* Lines 99-110: PATCH /update/{file_id} with the JSON object fields as
\* body; o is what the store answers to update_item.
UpdateSample(fid, fields, o) ==
    /\ api_pc = "idle"
    /\ request' = [op |-> "update", file_id |-> fid, fields |-> fields]
    /\ IF "file_id" \in FieldNames(fields)
       THEN \* update_metadata(file_id, **fields): two values for file_id
            /\ api_calls' = <<>>
            /\ Respond(Unhandled)
            /\ UNCHANGED table
       ELSE LET r == UpdateMetadata(fid, fields, o)
                updated == r.ret
            IN /\ api_calls' = r.calls
               /\ table' = IF r.calls # <<>> /\ o.k = "val"
                           THEN UpdateItemEffect(table, r.calls[1].arg)
                           ELSE table
               /\ IF r.raised THEN Respond(Unhandled)
                  ELSE IF "error" \in DOMAIN updated
                  THEN Respond(HTTPException(500, updated["error"].v))
                  ELSE Respond([status |-> 200,
                                body |-> [file_id |-> fid,
                                          updated_fields |-> updated]])
    /\ UNCHANGED <<pipeline, objects, queue>>

\* The API process takes the next request.
ApiReturn ==
    /\ api_pc = "done"
    /\ api_pc' = "idle"
    /\ request' = NoRequest
    /\ api_calls' = <<>>
    /\ response' = Pending
    /\ UNCHANGED <<pipeline, table, objects, queue>>

\* The requests and the answers of the collaborators, one request served.
Filenames ==
    {<<"Song", ".", "WAV">>, <<"a", ".", "b", ".", "mp3">>,
     <<"notes", ".", "txt">>, <<"noext">>}

UUIDs == {<<"u1">>, <<"u2">>}

S3Answers == {Val("ok"), OtherError(<<"NoSuchBucket">>)}

StoreAnswers ==
    {Val("ok"), ClientError(<<"An error occurred (ValidationException)">>),
     OtherError(<<"Could not connect to the endpoint URL">>)}

LambdaAnswers == {Val("ok"), OtherError(<<"kaboom">>)}

PatchIds == {Str(<<"fid-1">>), Str(<<"u1">>)}

PatchFields ==
    {<<>>,
     <<<<"tempo", PyFloat(125)>>>>,
     <<<<"tempo", PyFloat(125)>>, <<"duration", PyFloat(3)>>>>,
     <<<<"analyzed_at", Str(<<"2020-01-01T00:00:00Z">>)>>>>,
     <<<<"error", Str(<<"none">>)>>>>,
     <<<<"file_id", Str(<<"fid-2">>)>>>>}

InitApp ==
    /\ ENABLE_TEMPO = TRUE
    /\ table \in InitialTables
    /\ objects = EmptyMap
    /\ InitLocals
    /\ InitOutside

NextApp ==
    \/ \E f \in Filenames, u \in UUIDs : UploadStart(f, u)
    \/ \E o \in S3Answers : UploadToS3(o)
    \/ \E o \in StoreAnswers : UploadSave(o)
    \/ \E o \in LambdaAnswers : UploadInvoke(o)
    \/ \E f \in PatchIds, fields \in PatchFields, o \in StoreAnswers :
          UpdateSample(f, fields, o)

SpecApp == InitApp /\ [][NextApp]_vars

\* ------------------------------------ several invocations, one system

\* Lambda takes the next event: the invocation's locals are gone.
Return ==
    /\ pc = "done"
    /\ pc' = "idle"
    /\ event' = EmptyMap
    /\ fileLen' = 0
    /\ fast_duration' = NoneOut
    /\ bounded_tempo' = NoneOut
    /\ timings' = EmptyMap
    /\ calls' = <<>>
    /\ result' = Pending
    /\ update_args' = EmptyMap
    /\ UNCHANGED <<ENABLE_TEMPO, tmp, table, objects, outside>>

\* The runs looked at when several invocations are followed: a 40 second
\* file, every library answering, every time difference the same, the clock
\* read at 1, S3 answering, and the store rejecting at most the first
\* update_item, with a ValidationException.
PlainRun ==
    /\ \A i \in 1..Len(calls) :
         (calls[i].out.k = "raise" /\ calls[i].by \notin {FD, BT}) =>
            /\ calls[i].op = "update_item"
            /\ Contains(calls[i].out.msg, "ValidationException")
    /\ \A i \in 1..Len(calls) :
         calls[i].op = "download_file" => calls[i].out = Val(40)
    /\ \A k \in DOMAIN timings : timings[k] = 1
    /\ bounded_tempo.k = "val" => bounded_tempo.tempo = 120 /\ bounded_tempo.beats = 42
    /\ update_args # EmptyMap => update_args.ExpressionAttributeValues[":a"].instant = 1
    /\ fast_duration.k = "val" => fast_duration.label \in {"mutagen", "soundfile.info"}
    /\ pc = "done" => "error" \notin DOMAIN result

\* The event of an invocation that carries no file_id.
BareEvent ==
    MkEvent(Str(<<"test-bucket">>), Str(<<"foo", ".", "MP3">>), Absent)

StoreFields ==
    {<<<<"tempo", PyFloat(125)>>>>,
     <<<<"analyzed_at", Str(<<"2020-01-01T00:00:00Z">>)>>>>}

InitStore ==
    /\ ENABLE_TEMPO = TRUE
    /\ table = EmptyMap
    /\ objects = EmptyMap
    /\ InitLocals
    /\ InitOutside

\* The API process serving uploads and updates of one file while the analyzer
\* runs the invocations queued for it, and invocations without file_id.
NextStore ==
    \/ UploadStart(<<"abc", ".", "wav">>, <<"fid-1">>)
    \/ UploadToS3(Val("ok"))
    \/ \E o \in StoreAnswers : UploadSave(o)
    \/ UploadInvoke(Val("ok"))
    \/ \E fields \in StoreFields : UpdateSample(Str(<<"fid-1">>), fields, Val("ok"))
    \/ ApiReturn
    \/ \E e \in queue \cup {BareEvent} : Start(e)
    \/ MakeTmp /\ PlainRun'
    \/ Download /\ PlainRun'
    \/ Duration /\ PlainRun'
    \/ Tempo /\ PlainRun'
    \/ PutObject /\ PlainRun'
    \/ UpdateItem /\ PlainRun'
    \/ RetryUpdateItem /\ PlainRun'
    \/ PutItem /\ PlainRun'
    \/ Return

SpecStore == InitStore /\ [][NextStore]_vars

\* The same event is delivered again after the invocation has returned: its
\* locals and the stores it left are kept in other, and Lambda starts over.
Rerun ==
    /\ pc = "done"
    /\ other.pc = "idle"
    /\ other' = Locals @@ [objects |-> objects, table |-> table]
    /\ pc' = "idle"
    /\ event' = EmptyMap
    /\ fileLen' = 0
    /\ fast_duration' = NoneOut
    /\ bounded_tempo' = NoneOut
    /\ timings' = EmptyMap
    /\ calls' = <<>>
    /\ result' = Pending
    /\ update_args' = EmptyMap
    /\ UNCHANGED <<ENABLE_TEMPO, tmp, table, objects, api>>

\* The second run sees the file and the extraction outcomes of the first.
SameOutcomes ==
    other.pc = "done" =>
        /\ fast_duration # NoneOut =>
              fileLen = other.fileLen /\ fast_duration = other.fast_duration
        /\ pc = "duration" => fileLen = other.fileLen
        /\ bounded_tempo # NoneOut => bounded_tempo = other.bounded_tempo

\* The runs looked at: a 40 second file; the duration found by the first
\* tier that applies or by none, librosa missing; the tempo found by the
\* primary tracker or not at all; only the download's time and the clock
\* differing from run to run.
RerunInputs ==
    /\ \A i \in 1..Len(calls) :
         /\ calls[i].op = "download_file" /\ calls[i].out.k = "val" =>
               calls[i].out.v = 40
         /\ calls[i].by \in {FD, BT} =>
               /\ calls[i].out.k # "none"
               /\ calls[i].op \notin {"librosa.get_duration", "librosa.load",
                                      "beat.tempo"}
    /\ "duration_s" \in DOMAIN timings => timings["duration_s"] = 1
    /\ "tempo_s" \in DOMAIN timings => timings["tempo_s"] = 1

RerunEvents ==
    {MkEvent(Str(<<"test-bucket">>), Str(<<"uploads", "/", "abc", ".", "wav">>),
             Str(<<"fid-1">>)),
     BareEvent}

InitRerun ==
    /\ ENABLE_TEMPO = TRUE
    /\ table \in InitialTables
    /\ objects = EmptyMap
    /\ InitLocals
    /\ InitOutside

\* One invocation, and the same event run once more.
NextRerun ==
    \/ \E e \in RerunEvents : other.pc = "idle" /\ Start(e)
    \/ other.pc = "done" /\ Start(other.event)
    \/ MakeTmp
    \/ Download /\ RerunInputs' /\ SameOutcomes'
    \/ Duration /\ RerunInputs' /\ SameOutcomes'
    \/ Tempo /\ RerunInputs' /\ SameOutcomes'
    \/ PutObject
    \/ UpdateItem
    \/ RetryUpdateItem
    \/ PutItem
    \/ Rerun

SpecRerun == InitRerun /\ [][NextRerun]_vars

\* Two invocations run in two Lambda containers; the one whose steps are taken
\* is in the locals, the other is suspended in other. The scheduler may switch
\* between them before any step.
Switch ==
    /\ other' = Locals
    /\ pc' = other.pc
    /\ event' = other.event
    /\ tmp' = other.tmp
    /\ fileLen' = other.fileLen
    /\ fast_duration' = other.fast_duration
    /\ bounded_tempo' = other.bounded_tempo
    /\ timings' = other.timings
    /\ calls' = other.calls
    /\ result' = other.result
    /\ update_args' = other.update_args
    /\ UNCHANGED <<ENABLE_TEMPO, table, objects, api>>

\* Event e may run beside the invocation o: another source key, and another
\* file_id when both carry one.
DistinctFrom(e, o) ==
    IF o.event = EmptyMap THEN TRUE
    ELSE /\ e["key"] # o.event["key"]
         /\ ("file_id" \in DOMAIN e /\ "file_id" \in DOMAIN o.event) =>
               e["file_id"] # o.event["file_id"]

ConcEvents ==
    {MkEvent(Str(<<"test-bucket">>), Str(<<d, "/", n, ".", "wav">>), f) :
        d \in {"a", "b"}, n \in {"x", "y"},
        f \in {Absent, Str(<<"fid-1">>), Str(<<"fid-2">>)}}

\* The runs looked at: as RerunInputs, every step of the handler's own
\* succeeding but for a first update_item rejected with a ValidationException.
ConcInputs ==
    /\ RerunInputs
    /\ \A i \in 1..Len(calls) :
         (calls[i].out.k = "raise" /\ calls[i].by \notin {FD, BT}) =>
            /\ calls[i].op = "update_item"
            /\ Contains(calls[i].out.msg, "ValidationException")
    /\ pc = "done" => "error" \notin DOMAIN result
    /\ update_args # EmptyMap => update_args.ExpressionAttributeValues[":a"].instant = 1

InitConc ==
    /\ ENABLE_TEMPO = TRUE
    /\ table = EmptyMap
    /\ objects = EmptyMap
    /\ InitLocals
    /\ InitOutside

NextConc ==
    \/ \E e \in ConcEvents : DistinctFrom(e, other) /\ Start(e)
    \/ MakeTmp /\ ConcInputs'
    \/ Download /\ ConcInputs'
    \/ Duration /\ ConcInputs'
    \/ Tempo /\ ConcInputs'
    \/ PutObject /\ ConcInputs'
    \/ UpdateItem /\ ConcInputs'
    \/ RetryUpdateItem /\ ConcInputs'
    \/ PutItem /\ ConcInputs'
    \/ Switch

SpecConc == InitConc /\ [][NextConc]_vars

\* -------------------------------------------------------------- claims

\* Artifacts left in the bucket by earlier runs, with other content.
PriorObjects ==
    [k \in {<<Str(<<"test-bucket">>), Str(OUT_PREFIX \o b \o <<".", "json">>)>> :
               b \in {<<"abc", ".", "wav">>, <<"foo", ".", "MP3">>}} |->
        [Body |-> JsonDumps([stale |-> TRUE]), ContentType |-> "text/plain"]]

\* One invocation of handler on a bucket that already holds artifacts.
InitPrior ==
    /\ ENABLE_TEMPO \in BOOLEAN
    /\ table = EmptyMap
    /\ objects = PriorObjects
    /\ InitLocals
    /\ InitOutside

SpecPrior == InitPrior /\ [][Next]_vars

\* The invocation's calls of operation op made by handler itself.
HandlerCalls(op) == SelectSeq(calls, LAMBDA c : c.by = "handler" /\ c.op = op)

UpdateCalls == HandlerCalls("update_item")
PutItemCalls == HandlerCalls("put_item")

\* A field of the event that is absent, None or the empty string.
IsMissing(x) == x.t = "None" \/ (x.t = "str" /\ x.v = <<>>)

MissingError == [error |-> <<"Missing bucket or key">>]

IsSuccess(r) == DOMAIN r = {"bucket", "key", "analysis"}
IsError(r) == DOMAIN r = {"error"}

\* C1: once handler has been entered with an event whose bucket or key is
\* missing (absent or empty), it has returned exactly
\* {error: "Missing bucket or key"} and has made no call at all: no download,
\* no put_object, no update_item or put_item; the stores are as they were.
C1_MissingParamsNoIO ==
    (pc # "idle" /\ (IsMissing(bucket) \/ IsMissing(key))) =>
        /\ pc = "done"
        /\ result = MissingError
        /\ calls = <<>>
        /\ ~tmp
        /\ objects = EmptyMap
        /\ table \in InitialTables

\* C1 witness: an event with a bucket and an empty key has been answered.
C1_Witness ==
    /\ pc = "done"
    /\ bucket = Str(<<"test-bucket">>)
    /\ key = Str(<<>>)
    /\ result = MissingError

\* Whether the invocation has reached the persistence step.
ReachedStore == Len(UpdateCalls) + Len(PutItemCalls) > 0

OnlyUpdate ==
    /\ PutItemCalls = <<>>
    /\ \A i \in 1..Len(UpdateCalls) :
         UpdateCalls[i].arg.Key = [file_id |-> file_id]

OnlyInsert ==
    /\ UpdateCalls = <<>>
    /\ \A i \in 1..Len(PutItemCalls) :
         /\ PutItemCalls[i].arg.Item.file_id = Str(Basename(key.v))
         /\ PutItemCalls[i].arg.Item.s3_key = key

\* C2 as stated: update_item only whenever the event carries file_id,
\* put_item only (keyed by the basename of the source key) whenever it does not.
C2_Original ==
    ReachedStore => IF "file_id" \in DOMAIN event THEN OnlyUpdate ELSE OnlyInsert

\* C2 amended: update_item only whenever file_id is present and non-empty;
\* put_item only, with file_id = basename(key) and s3_key = key, whenever
\* file_id is absent or empty.
C2_UpsertByFileId ==
    ReachedStore => IF ~IsMissing(file_id) THEN OnlyUpdate ELSE OnlyInsert

\* C2 witness: an insert for uploads/abc.wav keyed "abc.wav".
C2_Witness ==
    /\ pc = "done"
    /\ "file_id" \notin DOMAIN event
    /\ Len(PutItemCalls) = 1
    /\ PutItemCalls[1].arg.Item.file_id = Str(<<"abc", ".", "wav">>)
    /\ PutItemCalls[1].arg.Item.s3_key = Str(<<"uploads", "/", "abc", ".", "wav">>)
    /\ IsSuccess(result)

\* The naming/validation-class failures of the store.
TransientMessages ==
    {<<"An error occurred (", "ValidationException", ") when calling the UpdateItem operation">>,
     <<"Attribute name is a ", "reserved keyword">>}

FailedWith(c, M) == c.out.k = "raise" /\ c.out.msg \in M

\* C3: when the first update_item failed with a transient error, the finished
\* invocation has made exactly two update_item calls with identical
\* arguments, and if the second failed too it returned {error: message} of
\* that failure.
C3_OneRetrySameArgs ==
    (pc = "done" /\ UpdateCalls # <<>> /\ FailedWith(UpdateCalls[1], TransientMessages)) =>
        /\ Len(UpdateCalls) = 2
        /\ UpdateCalls[2].arg = UpdateCalls[1].arg
        /\ UpdateCalls[2].out.k = "raise" => result = [error |-> UpdateCalls[2].out.msg]
        /\ UpdateCalls[2].out.k # "raise" => IsSuccess(result)

\* C3 witness: both attempts failed with a transient error.
C3_Witness ==
    /\ pc = "done"
    /\ Len(UpdateCalls) = 2
    /\ FailedWith(UpdateCalls[1], TransientMessages)
    /\ FailedWith(UpdateCalls[2], TransientMessages)
    /\ IsError(result)

\* C4: a second update_item is made only after a transient failure of the
\* first; when the first failed otherwise, the finished invocation made one
\* update_item, no put_item and returned {error: message}.
C4_RetryOnlyIfTransient ==
    /\ Len(UpdateCalls) >= 2 => FailedWith(UpdateCalls[1], TransientMessages)
    /\ (pc = "done" /\ UpdateCalls # <<>>
          /\ FailedWith(UpdateCalls[1], StoreErrors \ TransientMessages)) =>
         /\ Len(UpdateCalls) = 1
         /\ PutItemCalls = <<>>
         /\ result = [error |-> UpdateCalls[1].out.msg]

\* C4 witness: the first update_item failed with a throughput error.
C4_Witness ==
    /\ pc = "done"
    /\ Len(UpdateCalls) = 1
    /\ FailedWith(UpdateCalls[1], StoreErrors \ TransientMessages)

\* A call of the handler or of a stage that raised.
SomeCallRaised == \E i \in 1..Len(calls) : calls[i].out.k = "raise"

\* C5: a finished invocation has returned {bucket, key, analysis} or
\* {error: message}, whatever failed on the way; no exception left handler.
C5_NeverRaises ==
    pc = "done" =>
        \/ IsSuccess(result) /\ result.bucket = bucket /\ result.key = key
        \/ IsError(result)

\* C5 witness: the store write failed after a successful artifact write.
C5_Witness ==
    /\ pc = "done"
    /\ IsError(result)
    /\ Len(HandlerCalls("put_object")) = 1
    /\ Len(PutItemCalls) = 1
    /\ PutItemCalls[1].out.k = "raise"

\* The calls made by _fast_duration and by _bounded_tempo, in order.
DurationCalls == SelectSeq(calls, LAMBDA c : c.by = "_fast_duration")
TempoCalls == SelectSeq(calls, LAMBDA c : c.by = "_bounded_tempo")

\* Whether a call of a duration tier produced a result the tier accepts.
TierSucceeded(c) ==
    CASE c.op = "MutagenMP3" -> c.out.k = "val"
      [] c.op = "sf.info" -> c.out.k = "val" /\ c.out.v > 0
      [] c.op = "librosa.get_duration" -> c.out.k = "val" /\ c.out.v > 0
      [] c.op = "librosa.load" -> c.out.k = "val" /\ c.out.v.sr # 0 /\ c.out.v.n > 0
      [] OTHER -> FALSE

\* The duration a succeeding tier call stands for, and the tier's label.
TierResult(c) ==
    IF c.op = "librosa.load" THEN c.out.v.n \div c.out.v.sr ELSE c.out.v

LabelOfCall(c) ==
    CASE c.op = "MutagenMP3" -> "mutagen"
      [] c.op = "sf.info" -> "soundfile.info"
      [] c.op = "librosa.get_duration" -> "librosa.get_duration"
      [] c.op = "librosa.load" -> "librosa.partial"

\* Whether the key ends in ".mp3", in any case.
KeyIsMp3 ==
    /\ Len(key.v) >= 3
    /\ key.v[Len(key.v) - 1] = "."
    /\ key.v[Len(key.v)] \in {"mp3", "MP3"}

\* C6: once _fast_duration has returned, its calls went through the tiers in
\* the order 1 (mutagen, ".mp3" only), 2 (soundfile.info), 3
\* (librosa.get_duration), 4 (partial decode) without skipping one; a call
\* that succeeded is the last call made, and the result is that call's value
\* under that tier's label. So if tier 1 succeeds no later tier is invoked.
C6_FirstSuccessWins ==
    fast_duration.k = "val" =>
        LET D == DurationCalls
        IN /\ D # <<>>
           /\ D[1].arg.tier = IF KeyIsMp3 THEN 1 ELSE 2
           /\ \A i \in 1..(Len(D) - 1) :
                /\ D[i].arg.tier <= D[i + 1].arg.tier
                /\ D[i + 1].arg.tier <= D[i].arg.tier + 1
           /\ \A i \in 1..Len(D) :
                TierSucceeded(D[i]) =>
                    /\ i = Len(D)
                    /\ fast_duration.label = LabelOfCall(D[i])
                    /\ fast_duration.d = TierResult(D[i])
           /\ fast_duration.label # "unknown" => TierSucceeded(D[Len(D)])

\* C6 witness: the header parse succeeded on an MP3 and nothing else ran.
C6_Witness ==
    /\ fast_duration.k = "val"
    /\ fast_duration.label = "mutagen"
    /\ fast_duration.d = 40
    /\ Len(DurationCalls) = 1
    /\ DurationCalls[1].op = "MutagenMP3"

NoTierSucceeded == \A i \in 1..Len(DurationCalls) : ~TierSucceeded(DurationCalls[i])

TiersTried == {DurationCalls[i].arg.tier : i \in 1..Len(DurationCalls)}

\* C7: _fast_duration never raises; it returns (0.0, "unknown") exactly when
\* no tier succeeded, and then every tier was tried (tier 1 on ".mp3" only),
\* each failure having fallen through to the next tier.
C7_NeverRaisesUnknownIffAllFail ==
    /\ fast_duration.k # "raise"
    /\ fast_duration.k = "val" =>
         /\ (fast_duration.d = 0 /\ fast_duration.label = "unknown") <=> NoTierSucceeded
         /\ NoTierSucceeded => TiersTried = (IF KeyIsMp3 THEN {1} ELSE {}) \cup {2, 3, 4}

\* C7 witness: all four tiers raised on an MP3.
C7_Witness ==
    /\ fast_duration = [k |-> "val", d |-> 0, label |-> "unknown"]
    /\ TiersTried = {1, 2, 3, 4}
    /\ \E i \in 1..Len(DurationCalls) :
         DurationCalls[i].op = "librosa.load" /\ DurationCalls[i].out.k = "raise"
    /\ \E i \in 1..Len(DurationCalls) :
         DurationCalls[i].op = "MutagenMP3" /\ DurationCalls[i].out.k = "raise"

ZeroTriple == [k |-> "val", tempo |-> 0, beats |-> 0, elapsed |-> 0]

\* C8: with the tempo feature disabled, _bounded_tempo returns (0.0, 0, 0.0)
\* without importing librosa or asking for a decode, and a successful
\* invocation's analysis has tempo 0 and beats 0.
C8_DisabledTempo ==
    ~ENABLE_TEMPO =>
        /\ TempoCalls = <<>>
        /\ bounded_tempo.k # "none" => bounded_tempo = ZeroTriple
        /\ (pc = "done" /\ IsSuccess(result)) =>
             /\ result.analysis.tempo = 0
             /\ result.analysis.beats = 0
             /\ ~result.analysis.tempo_enabled

\* C8 witness: a successful invocation with the feature disabled, on a file
\* that has audio.
C8_Witness ==
    /\ ~ENABLE_TEMPO
    /\ pc = "done"
    /\ IsSuccess(result)
    /\ fileLen > 0

TempoCallRaised(ops) ==
    \E i \in 1..Len(TempoCalls) :
        TempoCalls[i].op \in ops /\ TempoCalls[i].out.k = "raise"

\* C9 as stated: whenever a call of _bounded_tempo failed (import, decode,
\* beat tracking or the fallback estimator), it returned (0.0, 0, 0.0); read
\* here on the tempo and the beat count, which do not depend on the clock.
C9_Original ==
    (bounded_tempo.k # "none"
        /\ TempoCallRaised({"import_librosa", "librosa.load", "beat_track", "beat.tempo"})) =>
        /\ bounded_tempo.k = "val"
        /\ bounded_tempo.tempo = ZeroTriple.tempo
        /\ bounded_tempo.beats = ZeroTriple.beats

\* What the primary beat tracker returned, when it returned.
PrimaryBeat ==
    LET i == CHOOSE i \in 1..Len(TempoCalls) : TempoCalls[i].op = "beat_track"
    IN TempoCalls[i].out.v

\* C9 amended: _bounded_tempo never raises; a failure of the import, of the
\* decode or of the primary beat tracking makes it return (0.0, 0, 0.0); a
\* failure of the fallback estimator is absorbed and the primary tracker's
\* tempo and beat count are returned.
C9_FailuresAbsorbed ==
    /\ bounded_tempo.k # "raise"
    /\ (bounded_tempo.k = "val"
          /\ TempoCallRaised({"import_librosa", "librosa.load", "beat_track"})) =>
         bounded_tempo = ZeroTriple
    /\ (bounded_tempo.k = "val" /\ TempoCallRaised({"beat.tempo"})) =>
         /\ bounded_tempo.tempo = PrimaryBeat.tempo
         /\ bounded_tempo.beats = PrimaryBeat.beats

\* C9 witness: the fallback estimator failed after the primary tracker found
\* beats but no tempo.
C9_Witness ==
    /\ bounded_tempo.k = "val"
    /\ TempoCallRaised({"beat.tempo"})
    /\ bounded_tempo.tempo = 0
    /\ bounded_tempo.beats = 42

TempoLoads == SelectSeq(TempoCalls, LAMBDA c : c.op = "librosa.load")

\* C10: _bounded_tempo issues at most one decode request; it asks for no more
\* than tempoMaxSeconds at the configured sample rate and receives no more
\* samples than that, however long the file is.
C10_BoundedDecode ==
    /\ Len(TempoLoads) <= 1
    /\ \A i \in 1..Len(TempoLoads) :
         /\ TempoLoads[i].arg.duration <= TEMPO_MAX_SECONDS
         /\ TempoLoads[i].arg.sr = TEMPO_SR
         /\ TempoLoads[i].out.k = "val" =>
              TempoLoads[i].out.v.n <= TEMPO_MAX_SECONDS * TEMPO_SR

\* C10 witness: a file longer than the bound was decoded up to the bound.
C10_Witness ==
    /\ fileLen > TEMPO_MAX_SECONDS
    /\ Len(TempoLoads) = 1
    /\ TempoLoads[1].out.k = "val"
    /\ TempoLoads[1].out.v.n = TEMPO_MAX_SECONDS * TEMPO_SR

\* The invocation created its scratch file: it got as far as the download.
TmpWasCreated == HandlerCalls("download_file") # <<>>

\* C11: the scratch file exists only while the invocation is between creating
\* it and returning; whenever handler has returned (success, download failure,
\* artifact-write failure, store failure after the retry, any other error) the
\* scratch file no longer exists.
C11_TmpReleased ==
    /\ pc = "done" => ~tmp
    /\ tmp => pc \in {"download", "duration", "tempo", "put_object", "store", "retry"}

\* C11 witness: the invocation created its scratch file, the store write failed
\* after the retry, handler returned the error and the file is gone.
C11_Witness ==
    /\ pc = "done"
    /\ TmpWasCreated
    /\ Len(UpdateCalls) = 2
    /\ IsError(result)
    /\ ~tmp

PutObjectCalls == HandlerCalls("put_object")

\* The key of the artifact of source key k.
ArtifactKey(k) == Str(OUT_PREFIX \o Basename(k.v) \o <<".", "json">>)

\* C12: an invocation that returned success has called put_object exactly
\* once, on the input bucket, at <prefix> + basename(key) + ".json", with
\* content type application/json and the returned analysis as body; the object
\* stored at that key is exactly that body and content type (nothing of the
\* prior content is left), and the other objects are untouched.
C12_ArtifactWrittenOnce ==
    IsSuccess(result) =>
        /\ Len(PutObjectCalls) = 1
        /\ PutObjectCalls[1].out = Val("ok")
        /\ PutObjectCalls[1].arg =
              [Bucket |-> bucket, Key |-> ArtifactKey(key),
               Body |-> JsonDumps(result.analysis),
               ContentType |-> "application/json"]
        /\ DOMAIN objects = DOMAIN PriorObjects
        /\ \A k \in DOMAIN objects :
             objects[k] = IF k = <<bucket, ArtifactKey(key)>>
                          THEN [Body |-> JsonDumps(result.analysis),
                                ContentType |-> "application/json"]
                          ELSE PriorObjects[k]

\* C12 witness: a successful invocation on uploads/abc.wav, whose artifact
\* key held other content before, has replaced it.
C12_Witness ==
    /\ IsSuccess(result)
    /\ key = Str(<<"uploads", "/", "abc", ".", "wav">>)
    /\ <<bucket, ArtifactKey(key)>> \in DOMAIN PriorObjects
    /\ objects[<<bucket, ArtifactKey(key)>>].Body = JsonDumps(result.analysis)
    /\ objects[<<bucket, ArtifactKey(key)>>] # PriorObjects[<<bucket, ArtifactKey(key)>>]

\* The store writes of the invocation that took effect, in order.
StoreWrites ==
    SelectSeq(calls, LAMBDA c : /\ c.by = "handler"
                                /\ c.op \in {"update_item", "put_item"}
                                /\ c.out = Val("ok"))

\* The decimal number dec equals the whole number x.
DecimalEq(dec, x) ==
    \/ dec.exp = 0 /\ dec.coef = x
    \/ dec.exp = 0 - 1 /\ dec.coef = 10 * x

\* The key and the duration and tempo written by store write c.
WrittenId(c) == IF c.op = "update_item" THEN c.arg.Key.file_id ELSE c.arg.Item.file_id
WrittenDuration(c) ==
    IF c.op = "update_item" THEN c.arg.ExpressionAttributeValues[":d"]
    ELSE c.arg.Item.duration
WrittenTempo(c) ==
    IF c.op = "update_item" THEN c.arg.ExpressionAttributeValues[":t"]
    ELSE c.arg.Item.tempo

\* C13: in an invocation that returned success exactly one store write took
\* effect: an update_item keyed by the given file_id when one was given (truthy),
\* a put_item otherwise; the duration and tempo it wrote, and the record now
\* holds, equal the duration and tempo of the returned analysis.
C13_OneStoreWrite ==
    IsSuccess(result) =>
        /\ Len(StoreWrites) = 1
        /\ LET w == StoreWrites[1]
           IN /\ w.op = IF Truthy(file_id) THEN "update_item" ELSE "put_item"
              /\ w.op = "update_item" => WrittenId(w) = file_id
              /\ DecimalEq(WrittenDuration(w), result.analysis.duration)
              /\ DecimalEq(WrittenTempo(w), result.analysis.tempo)
              /\ WrittenId(w) \in DOMAIN table
              /\ table[WrittenId(w)].duration = WrittenDuration(w)
              /\ table[WrittenId(w)].tempo = WrittenTempo(w)

\* C13 witness: a success after a retried update_item, the duration and the
\* tempo both known and different.
C13_Witness ==
    /\ IsSuccess(result)
    /\ Len(UpdateCalls) = 2
    /\ Len(StoreWrites) = 1
    /\ result.analysis.duration = 40
    /\ result.analysis.tempo = 120
    /\ table[file_id].duration = Decimal(FloatStr(40))

\* The duration stage ran and no tier succeeded.
DurationDegraded == DurationCalls # <<>> /\ NoTierSucceeded

\* The tempo stage ran and its import, its decode or its beat tracking failed.
TempoDegraded == TempoCallRaised({"import_librosa", "librosa.load", "beat_track"})

\* The invocation's last call was a write of the artifact or of the record
\* and it raised.
PersistenceRaised ==
    /\ calls # <<>>
    /\ LET c == calls[Len(calls)]
       IN /\ c.by = "handler"
          /\ c.op \in {"put_object", "update_item", "put_item"}
          /\ c.out.k = "raise"

\* C15: an invocation whose duration stage and/or tempo stage degraded ends in
\* {error} only if a write of the artifact or of the record raised (the error
\* is that write's); otherwise it returns {bucket, key, analysis}, the degraded
\* stage's fields being (0.0, "unknown") and (0.0, 0), after exactly one
\* artifact write carrying that analysis and exactly one store write.
C15_PartialSuccess ==
    (pc = "done" /\ (DurationDegraded \/ TempoDegraded)) =>
        IF PersistenceRaised
        THEN result = [error |-> calls[Len(calls)].out.msg]
        ELSE /\ IsSuccess(result)
             /\ DurationDegraded =>
                  /\ result.analysis.duration = 0
                  /\ result.analysis.duration_method = "unknown"
             /\ TempoDegraded =>
                  /\ result.analysis.tempo = 0
                  /\ result.analysis.beats = 0
             /\ Len(PutObjectCalls) = 1
             /\ PutObjectCalls[1].out = Val("ok")
             /\ PutObjectCalls[1].arg.Body = JsonDumps(result.analysis)
             /\ Len(StoreWrites) = 1

\* C15 witness: both stages degraded and the invocation returned success.
C15_Witness ==
    /\ pc = "done"
    /\ DurationDegraded
    /\ TempoDegraded
    /\ IsSuccess(result)
    /\ result.analysis.duration_method = "unknown"
    /\ Len(StoreWrites) = 1

\* POST /upload was answered with success: HTTP 200, lambda_invoked true.
UploadSucceeded ==
    /\ request.op = "upload"
    /\ api_pc = "done"
    /\ response.status = 200
    /\ response.body.lambda_invoked

\* The calls of a request that went through the three steps in order, all
\* with the file_id and the s3_key of the response, the key being
\* uploads/<file_id><ext>.
UploadCallsInOrder ==
    LET id == response.body.file_id
        k == response.body.s3_key
    IN /\ k = Str(<<"uploads", "/">> \o id.v \o UploadExt(request.filename))
       /\ Len(api_calls) = 3
       /\ api_calls[1].op = "upload_fileobj"
       /\ api_calls[1].out = Val("ok")
       /\ api_calls[1].arg = [Bucket |-> S3_BUCKET, Key |-> k]
       /\ <<S3_BUCKET, k>> \in DOMAIN objects
       /\ api_calls[2].op = "put_item"
       /\ api_calls[2].arg.Item.file_id = id
       /\ api_calls[2].arg.Item.s3_key = k
       /\ api_calls[3].op = "invoke"
       /\ api_calls[3].out = Val("ok")
       /\ api_calls[3].arg.InvocationType = "Event"
       /\ api_calls[3].arg.Payload =
             JsonDumps([bucket |-> S3_BUCKET, key |-> k, file_id |-> id])
       /\ queue = {[bucket |-> S3_BUCKET, key |-> k, file_id |-> id]}

\* The S3 upload of the request failed: HTTP 500, and nothing after it.
UploadFailedAtS3 ==
    /\ response.status = 500
    /\ Len(api_calls) = 1
    /\ table \in InitialTables
    /\ objects = EmptyMap
    /\ queue = {}

S3UploadRaised ==
    \E i \in 1..Len(api_calls) :
        api_calls[i].op = "upload_fileobj" /\ api_calls[i].out.k = "raise"

\* C18 as stated: a successful upload has uploaded the object, then saved the
\* initial record (the store holds it under the same file_id, with the same
\* s3_key), then invoked the analyzer once; a failed S3 upload ends in HTTP 500
\* with no save and no invocation.
C18_Original ==
    /\ UploadSucceeded =>
         /\ UploadCallsInOrder
         /\ response.body.file_id \in DOMAIN table
         /\ table[response.body.file_id].s3_key = response.body.s3_key
    /\ S3UploadRaised => UploadFailedAtS3

\* C18 amended: a successful upload has uploaded the object at
\* uploads/<file_id><ext>, then called save_metadata with the same file_id and
\* s3_key, then invoked the analyzer exactly once with {bucket, key, file_id}
\* of the same values; the record is in the store if the store accepted the
\* put_item, and the upload goes on all the same when the store rejected it
\* with a ClientError. A failed S3 upload ends in HTTP 500 with no save and no
\* invocation.
C18_UploadOrder ==
    /\ UploadSucceeded =>
         /\ UploadCallsInOrder
         /\ \/ /\ api_calls[2].out = Val("ok")
               /\ response.body.file_id \in DOMAIN table
               /\ table[response.body.file_id] = api_calls[2].arg.Item
            \/ /\ api_calls[2].out.k = "raise"
               /\ api_calls[2].out.type = "ClientError"
               /\ table \in InitialTables
    /\ S3UploadRaised => UploadFailedAtS3

\* C18 witness: a successful upload of Song.WAV under the id u1, the record
\* saved.
C18_Witness ==
    /\ UploadSucceeded
    /\ request.filename = <<"Song", ".", "WAV">>
    /\ response.body.s3_key = Str(<<"uploads", "/", "u1", ".", "wav">>)
    /\ Str(<<"u1">>) \in DOMAIN table
    /\ Len(api_calls) = 3

InvokeCalls == SelectSeq(api_calls, LAMBDA c : c.op = "invoke")

\* C19: when the invocation of the analyzer raised, the request is answered
\* HTTP 200 with {file_id, s3_key, lambda_invoked: false, error: str(e)}; the
\* invoke was the request's last call (nothing is deleted or undone): the
\* uploaded object is still in the bucket, the record is still in the store
\* if the store accepted it, and nothing was queued for the analyzer.
C19_InvokeFailureKept ==
    (InvokeCalls # <<>> /\ InvokeCalls[1].out.k = "raise") =>
        LET put == api_calls[2]
            id == put.arg.Item.file_id
            k == put.arg.Item.s3_key
        IN /\ api_pc = "done"
           /\ response = [status |-> 200,
                          body |-> [file_id |-> id, s3_key |-> k,
                                    lambda_invoked |-> FALSE,
                                    error |-> InvokeCalls[1].out.msg]]
           /\ Len(api_calls) = 3
           /\ api_calls[3] = InvokeCalls[1]
           /\ <<S3_BUCKET, k>> \in DOMAIN objects
           /\ put.out = Val("ok") => id \in DOMAIN table /\ table[id] = put.arg.Item
           /\ queue = {}

\* C19 witness: the invocation raised "kaboom" after the object and the
\* record of u1 were stored.
C19_Witness ==
    /\ InvokeCalls # <<>>
    /\ InvokeCalls[1].out.k = "raise"
    /\ response.status = 200
    /\ response.body.error = <<"kaboom">>
    /\ Str(<<"u1">>) \in DOMAIN table
    /\ <<S3_BUCKET, Str(<<"uploads", "/", "u1", ".", "wav">>)>> \in DOMAIN objects

\* PATCH /update/{file_id} has been answered.
UpdateAnswered == request.op = "update" /\ api_pc = "done"

\* The store update of the request failed: update_metadata rejected the call
\* or could not be called, or the store raised.
StoreUpdateFailed == api_calls = <<>> \/ api_calls[1].out.k = "raise"

\* C20: PATCH /update/{file_id} answers HTTP 500 exactly when the store update
\* failed, and otherwise {file_id, updated_fields} with the attributes the
\* store reports as updated, whatever the field names sent.
C20_Original ==
    UpdateAnswered =>
        IF StoreUpdateFailed
        THEN response.status = 500
        ELSE response =
                [status |-> 200,
                 body |-> [file_id |-> request.file_id,
                           updated_fields |-> UpdatedNew(api_calls[1].arg).Attributes]]

HasAnalyzedAt(tbl, id) == id \in DOMAIN tbl /\ "analyzed_at" \in DOMAIN tbl[id]

\* The step is a store write of the pipeline, keyed id, that took effect.
PipelineWrote(id) ==
    /\ Len(calls') = Len(calls) + 1
    /\ LET c == calls'[Len(calls')]
       IN /\ c.by = "handler"
          /\ c.op = "update_item"
          /\ c.out = Val("ok")
          /\ c.arg.Key.file_id = id

\* C14: under any sequence of record creations (save_metadata), updates
\* (update_metadata) and pipeline runs, a record comes to carry analyzed_at, or
\* a new value of it, only in a step in which a pipeline run writes that
\* record: save_metadata never writes it and nothing but the pipeline sets it.
C14_Original ==
    [][\A id \in DOMAIN table' :
          (/\ HasAnalyzedAt(table', id)
           /\ ~HasAnalyzedAt(table, id) \/ table'[id].analyzed_at # table[id].analyzed_at)
            => PipelineWrote(id)]_vars

\* The same event was run twice and both runs returned success.
BothSucceeded ==
    /\ other.pc = "done"
    /\ IsSuccess(other.result)
    /\ pc = "done"
    /\ IsSuccess(result)
    /\ event = other.event

\* The stores hold the same keys as after the first run, and every record is
\* as the first run left it, analyzed_at aside.
SameKeysSameRecords ==
    /\ DOMAIN objects = DOMAIN other.objects
    /\ DOMAIN table = DOMAIN other.table
    /\ \A id \in DOMAIN table :
         /\ DOMAIN table[id] = DOMAIN other.table[id]
         /\ \A a \in DOMAIN table[id] \ {"analyzed_at"} :
              table[id][a] = other.table[id][a]

\* An artifact with its timings left out.
WithoutTimings(obj) == [obj EXCEPT !.Body.json.timings = EmptyMap]

RECURSIVE ReplayObjects(_, _)
ReplayObjects(cs, objs) ==
    IF cs = <<>> THEN objs
    ELSE LET c == Head(cs)
         IN ReplayObjects(Tail(cs),
                IF c.by = "handler" /\ c.op = "put_object" /\ c.out = Val("ok")
                THEN PutObjectEffect(objs, c.arg) ELSE objs)

RECURSIVE ReplayTable(_, _)
ReplayTable(cs, tbl) ==
    IF cs = <<>> THEN tbl
    ELSE LET c == Head(cs)
         IN ReplayTable(Tail(cs),
                IF c.by = "handler" /\ c.op = "update_item" /\ c.out = Val("ok")
                THEN UpdateItemEffect(tbl, c.arg)
                ELSE IF c.by = "handler" /\ c.op = "put_item" /\ c.out = Val("ok")
                THEN PutItemEffect(tbl, c.arg) ELSE tbl)

\* The artifact keys and the record keys written by a call sequence.
ArtifactKeysOf(cs) ==
    {<<cs[i].arg.Bucket, cs[i].arg.Key>> :
        i \in {j \in 1..Len(cs) : /\ cs[j].by = "handler"
                                  /\ cs[j].op = "put_object"
                                  /\ cs[j].out = Val("ok")}}
RecordKeysOf(cs) ==
    {WrittenId(cs[i]) :
        i \in {j \in 1..Len(cs) : /\ cs[j].by = "handler"
                                  /\ cs[j].op \in {"update_item", "put_item"}
                                  /\ cs[j].out = Val("ok")}}

\* Two invocations on distinct source keys, and distinct file_ids where both
\* carry one, have both returned success.
TwoDone ==
    /\ pc = "done"
    /\ other.pc = "done"
    /\ IsSuccess(result)
    /\ IsSuccess(other.result)
    /\ DistinctFrom(event, other)

KeysDisjoint ==
    /\ ArtifactKeysOf(calls) \cap ArtifactKeysOf(other.calls) = {}
    /\ RecordKeysOf(calls) \cap RecordKeysOf(other.calls) = {}

\* The stores are those left by one invocation run after the other, in one
\* order or the other, from the empty stores.
AsOneAfterTheOther ==
    \/ /\ objects = ReplayObjects(other.calls \o calls, EmptyMap)
       /\ table = ReplayTable(other.calls \o calls, EmptyMap)
    \/ /\ objects = ReplayObjects(calls \o other.calls, EmptyMap)
       /\ table = ReplayTable(calls \o other.calls, EmptyMap)

\* C16: two concurrent invocations on distinct source keys (and distinct
\* file_ids when supplied) need no coordination: under every interleaving of
\* their steps the artifact keys and the record keys they write are disjoint,
\* and the final artifact store and metadata store are those of running the
\* two invocations one after the other.
C16_Original ==
    TwoDone => KeysDisjoint /\ AsOneAfterTheOther

\* The step of the invocation a call belongs to: 1 download, 2 duration
\* extraction, 3 tempo extraction, 4 artifact write, 5 metadata store write.
StepOf(c) ==
    IF c.by = FD THEN 2
    ELSE IF c.by = BT THEN 3
    ELSE IF c.op = "download_file" THEN 1
    ELSE IF c.op = "put_object" THEN 4
    ELSE 5

StepCalls(n) == SelectSeq(calls, LAMBDA c : StepOf(c) = n)
DownloadFailed == calls # <<>> /\ calls[1].op = "download_file" /\ calls[1].out.k = "raise"
ArtifactWriteFailed == \E i \in 1..Len(calls) : StepOf(calls[i]) = 4 /\ calls[i].out.k = "raise"

\* C21: within one invocation the steps occur in the order download, duration
\* extraction, tempo extraction, artifact write, metadata store write, each
\* starting only after the previous one has completed: the calls are in that
\* order, any call after the download follows a download that succeeded, the
\* artifact write follows both extractions (their times are in timings), a
\* store call follows the one successful artifact write; a failed download
\* leaves no other call, a failed artifact write no store call.
C21_StepsInOrder ==
    /\ \A i, j \in 1..Len(calls) : i < j => StepOf(calls[i]) <= StepOf(calls[j])
    /\ Len(StepCalls(1)) <= 1 /\ Len(StepCalls(4)) <= 1
    /\ Len(calls) > 1 => StepOf(calls[1]) = 1 /\ calls[1].out.k = "val"
    /\ StepCalls(2) # <<>> => "download_s" \in DOMAIN timings
    /\ (StepCalls(3) # <<>> \/ pc \in {"put_object", "store", "retry"})
          => "duration_s" \in DOMAIN timings
    /\ StepCalls(4) # <<>> => {"duration_s", "tempo_s"} \subseteq DOMAIN timings
    /\ StepCalls(5) # <<>> => StepCalls(4) # <<>> /\ StepCalls(4)[1].out = Val("ok")
    /\ DownloadFailed => Len(calls) = 1 /\ pc = "done" /\ IsError(result)
    /\ ArtifactWriteFailed => StepCalls(5) = <<>> /\ pc = "done" /\ IsError(result)

\* C21 witness: an invocation whose download, extractions (both calling their
\* libraries) and artifact write were done in this order, and whose store
\* write then took effect.
C21_Witness ==
    /\ pc = "done"
    /\ IsSuccess(result)
    /\ StepCalls(2) # <<>>
    /\ StepCalls(3) # <<>>
    /\ StepCalls(5) # <<>>
    /\ StepCalls(5)[Len(StepCalls(5))].out = Val("ok")

\* The primary beat tracker returned; the fallback estimator was called.
PrimaryReported ==
    \E i \in 1..Len(TempoCalls) :
        TempoCalls[i].op = "beat_track" /\ TempoCalls[i].out.k = "val"
FallbackInvoked == \E i \in 1..Len(TempoCalls) : TempoCalls[i].op = "beat.tempo"

\* C22: once _bounded_tempo has returned, the onset-based fallback estimator
\* was invoked if and only if the primary beat tracker returned no tempo
\* (<= 0) or an empty beat set; when the primary returned a positive tempo
\* with at least one beat the fallback was not invoked and the returned tempo
\* is the primary's; whenever the primary returned, the returned beat count is
\* the number of beats it found.
C22_FallbackIffInconclusive ==
    bounded_tempo # NoneOut =>
        /\ FallbackInvoked <=>
              (PrimaryReported /\ (PrimaryBeat.tempo <= 0 \/ PrimaryBeat.beats = 0))
        /\ (PrimaryReported /\ PrimaryBeat.tempo > 0 /\ PrimaryBeat.beats >= 1) =>
              /\ ~FallbackInvoked
              /\ bounded_tempo.tempo = PrimaryBeat.tempo
        /\ PrimaryReported => bounded_tempo.beats = PrimaryBeat.beats

\* C22 witness: the primary found a tempo of 120 but no beat; the fallback was
\* invoked, its estimate (the mean of 80 and 100) is the tempo returned, and
\* the beat count returned is the primary's 0.
C22_Witness ==
    /\ bounded_tempo # NoneOut
    /\ PrimaryReported
    /\ PrimaryBeat.tempo = 120
    /\ PrimaryBeat.beats = 0
    /\ FallbackInvoked
    /\ bounded_tempo.tempo = 90
    /\ bounded_tempo.beats = 0

\* C23 as stated: _fast_duration returns a zero duration only together with
\* the label "unknown"; every result that carries a tier label, the MP3 header
\* parse included, has a duration > 0.
C23_Original ==
    (fast_duration.k = "val" /\ fast_duration.label # "unknown") =>
        fast_duration.d > 0

\* C23 amended: a result labelled soundfile.info, librosa.get_duration or
\* librosa.partial has a duration > 0 and the label "unknown" comes with the
\* duration 0; the MP3 header parse is returned unchecked, so the label
\* mutagen carries whatever length the parse reported, zero included.
C23_ZeroOnlyUnknownOrMutagen ==
    fast_duration.k = "val" =>
        /\ fast_duration.label \in {"soundfile.info", "librosa.get_duration",
                                    "librosa.partial"} => fast_duration.d > 0
        /\ fast_duration.label = "unknown" => fast_duration.d = 0
        /\ fast_duration.label = "mutagen" =>
              /\ DurationCalls[1].op = "MutagenMP3"
              /\ fast_duration.d = DurationCalls[1].out.v
        /\ fast_duration.d = 0 => fast_duration.label \in {"unknown", "mutagen"}

\* C23 witness: on a file that is not an MP3 the container query reported a
\* duration of 0, which was not accepted; no later tier found one and the
\* result is (0, "unknown").
C23_Witness ==
    /\ fast_duration.k = "val"
    /\ ~KeyIsMp3
    /\ DurationCalls[1].op = "sf.info"
    /\ DurationCalls[1].out = Val(0)
    /\ Len(DurationCalls) > 1
    /\ fast_duration.d = 0
    /\ fast_duration.label = "unknown"

\* C24: after an invocation that returned success, the metadata record it
\* wrote carries analyzed_at, on the update path (file_id supplied) and on the
\* insert path (file_id absent) alike.
C24_Original ==
    (pc = "done" /\ IsSuccess(result)) =>
        /\ StoreWrites # <<>>
        /\ HasAnalyzedAt(table, WrittenId(StoreWrites[Len(StoreWrites)]))

\* The artifact writes of the invocation that took effect.
ArtifactWrites == SelectSeq(PutObjectCalls, LAMBDA c : c.out = Val("ok"))

\* C25: an invocation that returned {error: message} has left no persistent
\* effect: it wrote no artifact and wrote or changed no metadata record, so
\* the artifact of a run exists only if its metadata write took effect too.
C25_Original ==
    (pc = "done" /\ IsError(result)) =>
        /\ ArtifactWrites = <<>>
        /\ StoreWrites = <<>>

\* The attributes the update path sets.
AnalysisAttributes == {"duration", "tempo", "analyzed_at"}

\* A step of the analyzer (the pipeline), not of the API process.
PipelineStep == locals' # locals

\* C26: a step of a pipeline run never deletes a record; and a step of a run
\* on the update path (file_id supplied) leaves every record but the one keyed
\* file_id as it was, and of that record changes no attribute other than
\* duration, tempo and analyzed_at: filename, s3_key and the key stay, and no
\* attribute other than those three is added.
C26_UpdateFrame ==
    [][PipelineStep =>
         /\ DOMAIN table \subseteq DOMAIN table'
         /\ Truthy(file_id) =>
              \A id \in DOMAIN table :
                 IF id # file_id THEN table'[id] = table[id]
                 ELSE /\ DOMAIN table[id] \subseteq DOMAIN table'[id]
                      /\ DOMAIN table'[id] \subseteq
                             DOMAIN table[id] \cup AnalysisAttributes
                      /\ \A a \in DOMAIN table[id] \ AnalysisAttributes :
                           table'[id][a] = table[id][a]]_vars

\* C26 witness: a run on the update path has written the record fid-1, which
\* the upload had created with its filename and s3_key, while the table held
\* another record: fid-1 now carries analyzed_at beside its filename.
C26_Witness ==
    /\ pc = "done"
    /\ Truthy(file_id)
    /\ StoreWrites # <<>>
    /\ Cardinality(DOMAIN table) = 2
    /\ file_id \in DOMAIN table
    /\ {"filename", "s3_key", "analyzed_at"} \subseteq DOMAIN table[file_id]
    /\ table[file_id].filename = Str(<<"abc", ".", "wav">>)

====
